---- MODULE Spec2Model ----
(***************************************************************************)
(* Model of server.cjs: the read-only HTTP API over the two SQLite tables  *)
(* YT_tbl (database CBNYT_sql.db) and ENZ_EPS (database ENZ_sql.db).       *)
(*                                                                         *)
(* Text is a sequence of one-character strings, so that TRIM, LIKE,        *)
(* parseInt and strftime are computed character by character.  SQL NULL,   *)
(* JavaScript undefined and NaN are separate values.                       *)
(***************************************************************************)
EXTENDS Integers, Sequences, FiniteSets, TLC

VARIABLES
  cbn,    \* rows of YT_tbl, in rowid order
  enz,    \* rows of ENZ_EPS, in rowid order
  req,    \* the request being served: [op, query]
  page,   \* what paginated(req) returned to the handler
  res,    \* the response sent: [status, body]
  nq      \* storage statements run while serving the request

vars == <<cbn, enz, req, page, res, nq>>

(* ------------------------------ bounds -------------------------------- *)

\* longest limit / offset query string given to paginated
MaxLen == 3
\* most rows of YT_tbl
MaxCatalog == 2
\* most rows of ENZ_EPS
MaxEpisodes == 2

(* ------------------------------- values ------------------------------- *)

\* SQL NULL: no text has a multi-character element
NULL == <<"NULL">>
\* a query parameter that is absent from req.query
undefined == <<"undefined">>

\* JavaScript numbers as far as paginated needs them: an integer or NaN
Num(n) == [nan |-> FALSE, val |-> n]
NaN == [nan |-> TRUE, val |-> 0]

\* the printable ASCII characters, code 32 first (GRAVE stands for code 96,
\* which a string literal cannot hold)
Ascii ==
  << " ", "!", "\"", "#", "$", "%", "&", "'", "(", ")", "*", "+", ",", "-", ".", "/",
     "0", "1", "2", "3", "4", "5", "6", "7", "8", "9", ":", ";", "<", "=", ">", "?",
     "@", "A", "B", "C", "D", "E", "F", "G", "H", "I", "J", "K", "L", "M", "N", "O",
     "P", "Q", "R", "S", "T", "U", "V", "W", "X", "Y", "Z", "[", "\\", "]", "^", "_",
     "GRAVE", "a", "b", "c", "d", "e", "f", "g", "h", "i", "j", "k", "l", "m", "n", "o",
     "p", "q", "r", "s", "t", "u", "v", "w", "x", "y", "z", "{", "|", "}", "~" >>

Code == [c \in {Ascii[i] : i \in 1..Len(Ascii)} |->
           CHOOSE k \in 32..126 : Ascii[k - 31] = c]

IsDigit(c) == Code[c] \in 48..57
DigitVal(c) == Code[c] - 48

\* SQLite folds the 26 ASCII upper-case letters for LIKE
Lower(c) == IF Code[c] \in 65..90 THEN Ascii[Code[c] + 1] ELSE c

\* JavaScript truthiness of a query parameter: if (x) { ... }
Truthy(v) == v # undefined /\ v # <<>>

\* memcmp order of two texts (SQLite's BINARY collation)
RECURSIVE TextLess(_, _)
TextLess(a, b) ==
  IF a = <<>> THEN b # <<>>
  ELSE IF b = <<>> THEN FALSE
  ELSE IF Head(a) = Head(b) THEN TextLess(Tail(a), Tail(b))
  ELSE Code[Head(a)] < Code[Head(b)]

\* ORDER BY on a text column: NULL sorts before every text
SqlLess(a, b) ==
  IF a = NULL THEN b # NULL
  ELSE IF b = NULL THEN FALSE
  ELSE TextLess(a, b)

\* SQL TRIM(x): strips spaces, and only spaces, from both ends
RECURSIVE LTrim(_)
LTrim(s) == IF s # <<>> /\ Head(s) = " " THEN LTrim(Tail(s)) ELSE s

RECURSIVE RTrim(_)
RTrim(s) ==
  IF s # <<>> /\ s[Len(s)] = " " THEN RTrim(SubSeq(s, 1, Len(s) - 1)) ELSE s

Trim(s) == RTrim(LTrim(s))

\* col IS NOT NULL AND TRIM(col) <> ''
NotBlank(v) == v # NULL /\ Trim(v) # <<>>

\* col = @param as a WHERE term: NULL = x is NULL, which rejects the row
SqlEq(col, param) == col # NULL /\ param # NULL /\ col = param

\* SELECT DISTINCT v ... ORDER BY 1
RECURSIVE OrderAsc(_)
OrderAsc(S) ==
  IF S = {} THEN <<>>
  ELSE LET m == CHOOSE x \in S : \A y \in S \ {x} : SqlLess(x, y)
       IN  <<m>> \o OrderAsc(S \ {m})

\* GROUP BY v ... ORDER BY v DESC
RECURSIVE OrderDesc(_)
OrderDesc(S) ==
  IF S = {} THEN <<>>
  ELSE LET m == CHOOSE x \in S : \A y \in S \ {x} : SqlLess(y, x)
       IN  <<m>> \o OrderDesc(S \ {m})

Range(s) == {s[i] : i \in DOMAIN s}

(* ----------------------------- paginated ------------------------------ *)

\* the digits at the front of s, as a number, and how many there are
RECURSIVE LeadingDigits(_, _, _)
LeadingDigits(s, acc, n) ==
  IF s # <<>> /\ IsDigit(Head(s))
  THEN LeadingDigits(Tail(s), 10 * acc + DigitVal(Head(s)), n + 1)
  ELSE [val |-> acc, count |-> n]

\* parseInt(s, 10): leading white space (the space is the only white space
\* of the texts here), an optional sign, then digits up to the first
\* character that is not one; NaN when there is no digit
parseInt(s) ==
  LET t    == LTrim(s)
      neg  == t # <<>> /\ Head(t) = "-"
      sign == t # <<>> /\ Head(t) \in {"-", "+"}
      d    == LeadingDigits(IF sign THEN Tail(t) ELSE t, 0, 0)
  IN  IF d.count = 0 THEN NaN
      ELSE Num(IF neg THEN 0 - d.val ELSE d.val)

\* Math.max / Math.min: NaN if either argument is NaN
MathMax(a, b) ==
  IF a.nan \/ b.nan THEN NaN ELSE Num(IF a.val >= b.val THEN a.val ELSE b.val)

MathMin(a, b) ==
  IF a.nan \/ b.nan THEN NaN ELSE Num(IF a.val <= b.val THEN a.val ELSE b.val)

\* x ?? d
Nullish(x, d) == IF x = undefined THEN d ELSE x

\* paginated without the Math.min(100, ...) around the limit
paginatedUncapped(query) ==
  [limit  |-> MathMax(Num(1), parseInt(Nullish(query.limit, <<"5", "0">>))),
   offset |-> MathMax(Num(0), parseInt(Nullish(query.offset, <<"0">>)))]

paginated(query) ==
  [limit  |-> MathMin(Num(100), MathMax(Num(1), parseInt(Nullish(query.limit, <<"5", "0">>)))),
   offset |-> MathMax(Num(0), parseInt(Nullish(query.offset, <<"0">>)))]


(* ------------------------------ responses ----------------------------- *)

\* res.json(body)
Ok(body) == [status |-> 200, body |-> body]

\* res.status(code).json({ error: message })
Fail(code, message) == [status |-> code, body |-> [error |-> message]]

\* what a handler hands back: the response and the statements it ran
Served(response, statements) == [res |-> response, nq |-> statements]

\* every order of the rowids in ids that ORDER BY key DESC allows, key[i]
\* being the key of row i; rows with equal keys come in any order
Orderings(ids, key) ==
  {s \in [1..Cardinality(ids) -> ids] :
     /\ \A i, j \in DOMAIN s : i # j => s[i] # s[j]
     /\ \A i, j \in DOMAIN s : i < j => ~SqlLess(key[s[i]], key[s[j]])}

\* LIMIT @limit OFFSET @offset
LimitOffset(s, limit, offset) ==
  SubSeq(s, offset + 1, IF offset + limit <= Len(s) THEN offset + limit ELSE Len(s))

\* a NaN bound to @limit or @offset reaches SQLite as NULL, and SQLite
\* refuses a LIMIT or OFFSET that is not an integer
BindsAsInteger(p) == ~p.limit.nan /\ ~p.offset.nan

\* x LIKE pattern: % is any run, _ any one character, ASCII case folded
RECURSIVE Like(_, _)
Like(text, pattern) ==
  IF pattern = <<>> THEN text = <<>>
  ELSE IF Head(pattern) = "%"
       THEN Like(text, Tail(pattern)) \/ (text # <<>> /\ Like(Tail(text), pattern))
  ELSE IF text = <<>> THEN FALSE
  ELSE /\ Head(pattern) = "_" \/ Lower(Head(pattern)) = Lower(Head(text))
       /\ Like(Tail(text), Tail(pattern))

SqlLike(col, pattern) == col # NULL /\ Like(col, pattern)

(* ------------------------------- YT_tbl ------------------------------- *)

Choirs  == <<"C", "h", "o", "i", "r", "s", " ", "i", "n", " ", "c", "o", "n", "c", "e", "r", "t">>
Sermons == <<"S", "e", "r", "m", "o", "n", "s">>
Hindi   == <<"H", "i", "n", "d", "i">>
hindi   == <<"h", "i", "n", "d", "i">>
HINDI   == <<"H", "I", "N", "D", "I">>
Punjab  == <<"P", "u", "n", "j", "a", "b">>
Kerala  == <<"K", "e", "r", "a", "l", "a">>
Grace   == <<"G", "r", "a", "c", "e", " ", "C", "h", "u", "r", "c", "h">>
Hope    == <<"H", "o", "p", "e", " ", "C", "h", "u", "r", "c", "h">>
Hymn    == <<"H", "y", "m", "n">>
Blank   == << " " >>

\* the other texts the rows and the requests below are made of
Date_2024_01_05  == <<"2", "0", "2", "4", "-", "0", "1", "-", "0", "5">>
Date_2023_07_15  == <<"2", "0", "2", "3", "-", "0", "7", "-", "1", "5">>
Date_2023_11_02  == <<"2", "0", "2", "3", "-", "1", "1", "-", "0", "2">>
Date_2024_02_30  == <<"2", "0", "2", "4", "-", "0", "2", "-", "3", "0">>
Date_15_07_2023  == <<"1", "5", "/", "0", "7", "/", "2", "0", "2", "3">>
Date_2024_03_01  == <<"2", "0", "2", "4", "-", "0", "3", "-", "0", "1">>
Link             == <<"h", "t", "t", "p", "s", ":", "/", "/", "y", "o", "u", "t", "u", ".", "b", "e", "/", "x">>
Code_E1          == <<"E", "1">>
Year_2023        == <<"2", "0", "2", "3">>
Year_2024        == <<"2", "0", "2", "4">>
Month_07         == <<"0", "7">>
Month_03         == <<"0", "3">>
grace            == <<"g", "r", "a", "c", "e">>

Categories == << Choirs, Sermons >>
Languages  == << Hindi, hindi, Blank, NULL >>

\* a church and the state it is in; either column may be NULL or blank
Places ==
  << [state |-> Punjab, church |-> Grace], [state |-> Kerala, church |-> Hope],
     [state |-> Blank,  church |-> NULL],  [state |-> NULL,   church |-> Blank] >>

\* the kinds of catalog row: every category, language and place
CatalogRows ==
  [k \in 1..(Len(Categories) * Len(Languages) * Len(Places)) |->
     LET c == Categories[((k - 1) \div (Len(Languages) * Len(Places))) + 1]
         l == Languages[(((k - 1) \div Len(Places)) % Len(Languages)) + 1]
         p == Places[((k - 1) % Len(Places)) + 1]
     IN  [Ministry_Category |-> c, Segment_Language |-> l,
          Church_State |-> p.state, Church_Name |-> p.church,
          Video_Title |-> Hymn, Youtube_Links |-> Link,
          Upload_Date |-> IF c = Choirs THEN Date_2024_01_05 ELSE Date_2023_07_15]]

\* the tables of at most n rows, each of one of the kinds, one table for each
\* multiset of rows: a handler returns rowid only as an opaque id and breaks
\* ORDER BY ties in any order, so it cannot tell two orders of the same rows
\* apart
Tables(kinds, n) ==
  UNION { { [i \in 1..m |-> kinds[ks[i]]] :
              ks \in {f \in [1..m -> DOMAIN kinds] :
                        \A i \in 1..(m - 1) : f[i] <= f[i + 1]} } :
          m \in 0..n }

(* ------------------------------ /filters ------------------------------ *)

\* the WHERE of langs: the category, if given
langsWhere(r, query) ==
  Truthy(query.Ministry_Category)
    => SqlEq(r.Ministry_Category, query.Ministry_Category)

\* const langs: DISTINCT Segment_Language, NULL and blank ones included
langs(tbl, query) ==
  OrderAsc({tbl[i].Segment_Language : i \in {j \in DOMAIN tbl : langsWhere(tbl[j], query)}})

\* the states statement of /filters is "... FROM YT_tbl <where> AND ..." and
\* <where> is empty unless a category or a language is given: then the
\* statement starts its condition with AND and prepare() throws
statesPrepares(query) == Truthy(query.Ministry_Category) \/ Truthy(query.language)

\* statesWhere with the category term left out once a language is given
statesWhereLanguageAlone(r, query) ==
  /\ (Truthy(query.Ministry_Category) /\ ~Truthy(query.language))
       => SqlEq(r.Ministry_Category, query.Ministry_Category)
  /\ Truthy(query.language) => SqlEq(r.Segment_Language, query.language)
  /\ NotBlank(r.Church_State)

\* the WHERE of states: category and language, if given, and a state
statesWhere(r, query) ==
  /\ Truthy(query.Ministry_Category)
       => SqlEq(r.Ministry_Category, query.Ministry_Category)
  /\ Truthy(query.language) => SqlEq(r.Segment_Language, query.language)
  /\ NotBlank(r.Church_State)

\* const states
states(tbl, query) ==
  OrderAsc({tbl[i].Church_State : i \in {j \in DOMAIN tbl : statesWhere(tbl[j], query)}})

\* the churches statement is "... FROM YT_tbl ${baseWhere} AND ...": baseWhere
\* is empty when W is
churchesPrepares(query) ==
  Truthy(query.Ministry_Category) \/ Truthy(query.language) \/ Truthy(query.state)

\* baseWhere, and a church
churchesWhere(r, query) ==
  /\ Truthy(query.Ministry_Category)
       => SqlEq(r.Ministry_Category, query.Ministry_Category)
  /\ Truthy(query.language) => SqlEq(r.Segment_Language, query.language)
  /\ Truthy(query.state) => SqlEq(r.Church_State, query.state)
  /\ NotBlank(r.Church_Name)

\* const churches
churches(tbl, query) ==
  OrderAsc({tbl[i].Church_Name : i \in {j \in DOMAIN tbl : churchesWhere(tbl[j], query)}})

SyntaxError == "SqliteError: near \"AND\": syntax error"

\* app.get("/filters"): the three statements in turn; the first that throws
\* ends the request in the catch block
GetFilters(tbl, query) ==
  IF ~statesPrepares(query) THEN Served(Fail(500, SyntaxError), 1)
  ELSE IF ~churchesPrepares(query) THEN Served(Fail(500, SyntaxError), 2)
  ELSE Served(Ok([languages |-> langs(tbl, query),
                  states    |-> states(tbl, query),
                  churches  |-> churches(tbl, query)]), 3)

(* --------------------------- /filters/states -------------------------- *)

\* where: a state, then category and language if given
StatesWhere(r, query) ==
  /\ NotBlank(r.Church_State)
  /\ Truthy(query.Ministry_Category)
       => SqlEq(r.Ministry_Category, query.Ministry_Category)
  /\ Truthy(query.language) => SqlEq(r.Segment_Language, query.language)

GetFiltersStates(tbl, query) ==
  Served(Ok([states |->
    OrderAsc({tbl[i].Church_State : i \in {j \in DOMAIN tbl : StatesWhere(tbl[j], query)}})]), 1)

(* -------------------------- /filters/churches ------------------------- *)

\* where: a church, then category, language and state if given
ChurchesWhere(r, query) ==
  /\ NotBlank(r.Church_Name)
  /\ Truthy(query.Ministry_Category)
       => SqlEq(r.Ministry_Category, query.Ministry_Category)
  /\ Truthy(query.language) => SqlEq(r.Segment_Language, query.language)
  /\ Truthy(query.state) => SqlEq(r.Church_State, query.state)

GetFiltersChurches(tbl, query) ==
  Served(Ok([churches |->
    OrderAsc({tbl[i].Church_Name : i \in {j \in DOMAIN tbl : ChurchesWhere(tbl[j], query)}})]), 1)

(* ------------------------------- /videos ------------------------------ *)

\* Ministry_Category ?? category
pickedCategory(query) == Nullish(query.Ministry_Category, query.category)

\* the WHERE of /videos: one term for each facet that is given
VideosWhere(r, query) ==
  /\ Truthy(pickedCategory(query))
       => SqlEq(r.Ministry_Category, pickedCategory(query))
  /\ Truthy(query.language) => SqlEq(r.Segment_Language, query.language)
  /\ Truthy(query.state)    => SqlEq(r.Church_State, query.state)
  /\ Truthy(query.church)   => SqlEq(r.Church_Name, query.church)
  /\ Truthy(query.q)
       => \/ SqlLike(r.Video_Title, <<"%">> \o query.q \o <<"%">>)
          \/ SqlLike(r.Church_Name, <<"%">> \o query.q \o <<"%">>)

\* the SELECT list of /videos
VideoOf(tbl, i) ==
  [id |-> i, title |-> tbl[i].Video_Title, language |-> tbl[i].Segment_Language,
   category |-> tbl[i].Ministry_Category, churchName |-> tbl[i].Church_Name,
   youtubeUrl |-> tbl[i].Youtube_Links, uploadDate |-> tbl[i].Upload_Date]

MismatchError == "SqliteError: datatype mismatch"

\* app.get("/videos"): every response the handler may send; there is one
\* for each order ORDER BY Upload_Date DESC allows
GetVideos(tbl, query) ==
  LET p == paginated(query)
  IN  IF ~BindsAsInteger(p) THEN {Served(Fail(500, MismatchError), 0)}
      ELSE { Served(Ok([k \in DOMAIN s |-> VideoOf(tbl, s[k])]), 1) :
             s \in { LimitOffset(o, p.limit.val, p.offset.val) :
                     o \in Orderings({i \in DOMAIN tbl : VideosWhere(tbl[i], query)},
                                     [i \in DOMAIN tbl |-> tbl[i].Upload_Date]) } }

(* ------------------------------- ENZ_EPS ------------------------------ *)

\* SQLite reads a date text as YYYY-MM-DD: four digits, two digits from 01 to
\* 12, two digits from 01 to 31, then nothing but white space or T.  The
\* other forms SQLite reads (a time of day, a Julian day number, 'now', a
\* negative year) are not among the values of Telecast_date below.
IsIsoDate(z) ==
  /\ Len(z) >= 10
  /\ \A i \in {1, 2, 3, 4, 6, 7, 9, 10} : IsDigit(z[i])
  /\ z[5] = "-" /\ z[8] = "-"
  /\ 10 * DigitVal(z[6]) + DigitVal(z[7]) \in 1..12
  /\ 10 * DigitVal(z[9]) + DigitVal(z[10]) \in 1..31
  /\ \A i \in 11..Len(z) : z[i] \in {" ", "T"}

IsLeap(y) == (y % 4 = 0 /\ y % 100 # 0) \/ y % 400 = 0

DaysIn(y, m) ==
  IF m = 2 THEN (IF IsLeap(y) THEN 29 ELSE 28)
  ELSE IF m \in {4, 6, 9, 11} THEN 30 ELSE 31

Digits == << "0", "1", "2", "3", "4", "5", "6", "7", "8", "9" >>

\* two digits, zero padded
TwoDigits(n) == << Digits[(n \div 10) + 1], Digits[(n % 10) + 1] >>

\* strftime(format, z) for the formats '%Y' and '%m': NULL when z is NULL or
\* is not a date; a day past the end of its month counts on into the next
\* month (2023-02-30 is the 2nd of March)
strftime(format, z) ==
  IF z = NULL \/ ~IsIsoDate(z) THEN NULL
  ELSE LET y    == 1000 * DigitVal(z[1]) + 100 * DigitVal(z[2])
                     + 10 * DigitVal(z[3]) + DigitVal(z[4])
           m    == 10 * DigitVal(z[6]) + DigitVal(z[7])
           d    == 10 * DigitVal(z[9]) + DigitVal(z[10])
           over == d > DaysIn(y, m)
       IN  IF format = "%Y" THEN SubSeq(z, 1, 4)
           ELSE TwoDigits(IF over THEN m + 1 ELSE m)

\* String(x) of a query parameter: a string is itself
String(x) == IF x = undefined THEN <<"u", "n", "d", "e", "f", "i", "n", "e", "d">> ELSE x

Dates ==
  << NULL, Blank, Date_2023_07_15, Date_2023_11_02, Date_2024_02_30, Date_15_07_2023 >>
Links == << NULL, Blank, Link >>

\* the kinds of episode row: every date with every link
EpisodeRows ==
  [k \in 1..(Len(Dates) * Len(Links)) |->
     [Telecast_date |-> Dates[((k - 1) \div Len(Links)) + 1],
      Youtube_Links |-> Links[((k - 1) % Len(Links)) + 1],
      Video_Title |-> Hymn, Upload_Date |-> Date_2024_03_01, ESS_CODE |-> Code_E1]]

(* -------------------------------- /enz -------------------------------- *)

\* the four fixed terms of the WHERE of /enz, then year and month if given
EnzWhere(r, query) ==
  /\ r.Telecast_date # NULL
  /\ Trim(r.Telecast_date) # <<>>
  /\ r.Youtube_Links # NULL
  /\ Trim(r.Youtube_Links) # <<>>
  /\ Truthy(query.year)
       => SqlEq(strftime("%Y", r.Telecast_date), String(query.year))
  /\ Truthy(query.month)
       => SqlEq(strftime("%m", r.Telecast_date), String(query.month))

\* the SELECT list of /enz
EpisodeOf(tbl, i) ==
  [id |-> i, title |-> tbl[i].Video_Title, uploadDate |-> tbl[i].Upload_Date,
   telecastDate |-> tbl[i].Telecast_date, youtubeUrl |-> tbl[i].Youtube_Links,
   ESS_CODE |-> tbl[i].ESS_CODE]

\* app.get("/enz"): every response the handler may send; there is one for
\* each order ORDER BY Telecast_date DESC allows
GetEnz(tbl, query) ==
  LET p == paginated(query)
  IN  IF ~BindsAsInteger(p) THEN {Served(Fail(500, MismatchError), 0)}
      ELSE { Served(Ok([k \in DOMAIN s |-> EpisodeOf(tbl, s[k])]), 1) :
             s \in { LimitOffset(o, p.limit.val, p.offset.val) :
                     o \in Orderings({i \in DOMAIN tbl : EnzWhere(tbl[i], query)},
                                     [i \in DOMAIN tbl |-> tbl[i].Telecast_date]) } }

(* ----------------------------- /enz/years ----------------------------- *)

\* rows.map(r => r.y).filter(Boolean): drops null and ''
FilterBoolean(s) == SelectSeq(s, LAMBDA v : v # NULL /\ v # <<>>)

\* the WHERE of /enz/years without its two Youtube_Links terms
YearsWhereAnyLink(r) ==
  r.Telecast_date # NULL /\ Trim(r.Telecast_date) # <<>>

\* the WHERE of /enz/years
YearsWhere(r) ==
  /\ r.Telecast_date # NULL /\ Trim(r.Telecast_date) # <<>>
  /\ r.Youtube_Links # NULL /\ Trim(r.Youtube_Links) # <<>>

\* one row for each year of a row that passes, newest first; the rows whose
\* date does not parse make up the group of NULL
YearsRows(tbl) ==
  OrderDesc({strftime("%Y", tbl[i].Telecast_date) : i \in {j \in DOMAIN tbl : YearsWhere(tbl[j])}})

GetEnzYears(tbl) ==
  Served(Ok([years |-> FilterBoolean(YearsRows(tbl))]), 1)

(* ----------------------------- /enz/months ---------------------------- *)

\* the WHERE of /enz/months
MonthsWhere(r, year) ==
  /\ r.Telecast_date # NULL /\ Trim(r.Telecast_date) # <<>>
  /\ SqlEq(strftime("%Y", r.Telecast_date), year)
  /\ r.Youtube_Links # NULL /\ Trim(r.Youtube_Links) # <<>>

MonthsRows(tbl, year) ==
  OrderDesc({strftime("%m", tbl[i].Telecast_date) :
             i \in {j \in DOMAIN tbl : MonthsWhere(tbl[j], year)}})

\* the file declares no monthName and imports none: the call throws
ReferenceError == "ReferenceError: monthName is not defined"

\* months.map(mm => ({ value: mm, name: monthName(mm) })): the callback runs,
\* and throws, once there is a month to map
NamedMonths(months) ==
  IF months = <<>> THEN Ok([months |-> <<>>]) ELSE Fail(500, ReferenceError)

\* /enz/months without the check of year
GetEnzMonthsUnchecked(tbl, query) ==
  LET months == FilterBoolean(MonthsRows(tbl, String(query.year)))
  IN  IF query.names = << "1" >> THEN Served(NamedMonths(months), 1)
      ELSE Served(Ok([months |-> months]), 1)

\* app.get("/enz/months")
GetEnzMonths(tbl, query) ==
  IF ~Truthy(query.year) THEN Served(Fail(400, "year is required"), 0)
  ELSE LET months == FilterBoolean(MonthsRows(tbl, String(query.year)))
       IN  IF query.names = << "1" >> THEN Served(NamedMonths(months), 1)
           ELSE Served(Ok([months |-> months]), 1)

(* ------------------------------ /healthz ------------------------------ *)

GetHealthz == Served(Ok([ok |-> TRUE]), 0)

(* ------------------------------ requests ------------------------------ *)

\* the limit and offset strings a client may send to paginated: every text
\* of at most MaxLen characters over these, or none
PageChars == {"0", "1", "-", "x"}

Texts(chars, n) == UNION {[1..m -> chars] : m \in 0..n}

PageParams == {undefined} \cup Texts(PageChars, MaxLen)

\* the limit and offset strings sent along with the other parameters
SomeLimits  == {undefined, << "1" >>, << "x" >>}
SomeOffsets == {undefined, << "1" >>}

FiltersQueries ==
  [Ministry_Category : {undefined, Choirs, Sermons},
   language : {undefined, <<>>, hindi},
   state : {undefined, Punjab}]

ChurchesQueries ==
  [Ministry_Category : {undefined, Choirs, Sermons},
   language : {undefined, hindi},
   state : {undefined, Punjab}]

StatesQueries ==
  [Ministry_Category : {undefined, Choirs, Sermons},
   language : {undefined, <<>>, hindi}]

\* category, language and limit vary with the other facets absent, and
\* language, state, church, search term and offset vary with no category
VideosQueries ==
  [Ministry_Category : {undefined, Choirs}, category : {undefined, Sermons},
   language : {undefined, hindi, HINDI},
   state : {undefined}, church : {undefined}, q : {undefined},
   limit : SomeLimits, offset : {undefined}]
  \cup
  [Ministry_Category : {undefined}, category : {undefined},
   language : {undefined, hindi, HINDI},
   state : {undefined, Punjab}, church : {undefined, Grace},
   q : {undefined, grace},
   limit : {undefined}, offset : SomeOffsets]

EnzQueries ==
  [year : {undefined, Year_2023, Year_2024}, month : {undefined, Month_07, Month_03},
   limit : SomeLimits, offset : SomeOffsets]

MonthsQueries ==
  [year : {undefined, <<>>, Year_2023, Year_2024}, names : {undefined, << "1" >>, << "0" >>}]

(* --------------------------- the state machine ------------------------ *)

NoRequest  == [op |-> "none", query |-> <<>>]
NoPage     == [limit |-> NaN, offset |-> NaN]
NoResponse == [status |-> 0, body |-> <<>>]

Start ==
  /\ req = NoRequest
  /\ page = NoPage
  /\ res = NoResponse
  /\ nq = 0

\* the process after boot, with both databases opened
InitFacets ==
  /\ cbn \in Tables(CatalogRows, MaxCatalog)
  /\ enz = <<>>
  /\ Start

InitVideos == InitFacets

InitEpisodes ==
  /\ cbn = <<>>
  /\ enz \in Tables(EpisodeRows, MaxEpisodes)
  /\ Start

InitPaginated ==
  /\ cbn = <<>>
  /\ enz = <<>>
  /\ Start

\* the handler of route op served query and answered with served
Serve(op, query, served) ==
  /\ req' = [op |-> op, query |-> query]
  /\ res' = served.res
  /\ nq' = served.nq
  /\ UNCHANGED <<cbn, enz>>

Healthz ==
  /\ Serve("/healthz", <<>>, GetHealthz)
  /\ page' = NoPage

Filters ==
  \E query \in FiltersQueries :
    /\ Serve("/filters", query, GetFilters(cbn, query))
    /\ page' = NoPage

FiltersStates ==
  \E query \in StatesQueries :
    /\ Serve("/filters/states", query, GetFiltersStates(cbn, query))
    /\ page' = NoPage

FiltersChurches ==
  \E query \in ChurchesQueries :
    /\ Serve("/filters/churches", query, GetFiltersChurches(cbn, query))
    /\ page' = NoPage

Videos ==
  \E query \in VideosQueries :
    \E served \in GetVideos(cbn, query) :
      /\ Serve("/videos", query, served)
      /\ page' = paginated(query)

Enz ==
  \E query \in EnzQueries :
    \E served \in GetEnz(enz, query) :
      /\ Serve("/enz", query, served)
      /\ page' = paginated(query)

EnzYears ==
  /\ Serve("/enz/years", <<>>, GetEnzYears(enz))
  /\ page' = NoPage

EnzMonths ==
  \E query \in MonthsQueries :
    /\ Serve("/enz/months", query, GetEnzMonths(enz, query))
    /\ page' = NoPage

\* paginated(req) on its own: every limit string with some offsets, and
\* every offset string with some limits
PageQueries ==
  [limit : PageParams, offset : SomeOffsets] \cup [limit : SomeLimits, offset : PageParams]

Paginated ==
  \E query \in PageQueries :
    /\ req' = [op |-> "paginated", query |-> query]
    /\ page' = paginated(query)
    /\ UNCHANGED <<cbn, enz, res, nq>>

NextFacets == Healthz \/ Filters \/ FiltersStates \/ FiltersChurches
NextVideos == Videos
NextEpisodes == Enz \/ EnzYears \/ EnzMonths
NextPaginated == Paginated

SpecFacets == InitFacets /\ [][NextFacets]_vars
SpecVideos == InitVideos /\ [][NextVideos]_vars
SpecEpisodes == InitEpisodes /\ [][NextEpisodes]_vars
SpecPaginated == InitPaginated /\ [][NextPaginated]_vars

(* ------------------------------- claims ------------------------------- *)

\* a media link that is null or blank after trimming
BlankLink(r) == r.Youtube_Links = NULL \/ Trim(r.Youtube_Links) = <<>>

\* C1: a record whose Youtube_Links is null or blank never shows in /enz,
\* /enz/years or /enz/months: every row returned has a link, and every year
\* and every month returned is the year or month of a record that has one.
C1_BlankLinkNeverListed ==
  /\ (req.op = "/enz" /\ res.status = 200)
       => \A k \in DOMAIN res.body : ~BlankLink(enz[res.body[k].id])
  /\ (req.op = "/enz/years" /\ res.status = 200)
       => \A y \in Range(res.body.years) :
            \E i \in DOMAIN enz :
              ~BlankLink(enz[i]) /\ strftime("%Y", enz[i].Telecast_date) = y
  /\ (req.op = "/enz/months" /\ res.status = 200)
       => \A m \in Range(res.body.months) :
            \E i \in DOMAIN enz :
              /\ ~BlankLink(enz[i])
              /\ strftime("%Y", enz[i].Telecast_date) = req.query.year
              /\ strftime("%m", enz[i].Telecast_date) = m

\* /enz/years answered with some year while the table holds a record with a
\* valid date and no link whose year is not in the answer
C1_Witness ==
  /\ req.op = "/enz/years" /\ res.status = 200
  /\ res.body.years # <<>>
  /\ \E i \in DOMAIN enz :
       /\ BlankLink(enz[i])
       /\ strftime("%Y", enz[i].Telecast_date) # NULL
       /\ strftime("%Y", enz[i].Telecast_date) \notin Range(res.body.years)

\* a Telecast_date that is present and not blank and is not a date
Unparseable(r) ==
  /\ r.Telecast_date # NULL /\ Trim(r.Telecast_date) # <<>>
  /\ strftime("%Y", r.Telecast_date) = NULL

\* C2: a record whose Telecast_date is present, not blank and not a valid date
\* shows in no episode read path: not in /enz without year and month, and it
\* gives /enz/years no year and /enz/months no month.
C2_UnparseableDateInvisible ==
  /\ (req.op = "/enz" /\ res.status = 200
        /\ ~Truthy(req.query.year) /\ ~Truthy(req.query.month))
       => \A k \in DOMAIN res.body : ~Unparseable(enz[res.body[k].id])
  /\ (req.op = "/enz/years" /\ res.status = 200)
       => \A y \in Range(res.body.years) :
            \E i \in DOMAIN enz :
              ~Unparseable(enz[i]) /\ strftime("%Y", enz[i].Telecast_date) = y
  /\ (req.op = "/enz/months" /\ res.status = 200)
       => \A m \in Range(res.body.months) :
            \E i \in DOMAIN enz :
              ~Unparseable(enz[i]) /\ strftime("%m", enz[i].Telecast_date) = m

Upper(c) == IF Code[c] \in 97..122 THEN Ascii[Code[c] - 63] ELSE c
UpperText(t) == [i \in DOMAIN t |-> Upper(t[i])]

\* the bodies /videos may answer query with
VideosBodies(query) == {served.res.body : served \in GetVideos(cbn, query)}

\* C3: /videos compares the language without regard to case: the request
\* served and the same request with its language in upper case have the same
\* answers.
C3_LanguageCaseInsensitive ==
  (req.op = "/videos" /\ Truthy(req.query.language))
    => VideosBodies(req.query)
         = VideosBodies([req.query EXCEPT !.language = UpperText(@)])

\* the states /filters and /filters/states answer for the category alone
StatesForCategory(op, category) ==
  IF op = "/filters"
  THEN GetFilters(cbn, [Ministry_Category |-> category, language |-> undefined,
                        state |-> undefined]).res
  ELSE GetFiltersStates(cbn, [Ministry_Category |-> category,
                              language |-> undefined]).res

\* C4: for a category C and a language L, the states /filters and
\* /filters/states return for C and L are among those they return for C.
C4_LanguageNarrowsStates ==
  (req.op \in {"/filters", "/filters/states"} /\ Truthy(req.query.Ministry_Category)
     /\ res.status = 200)
    => LET wide == StatesForCategory(req.op, req.query.Ministry_Category)
       IN  /\ wide.status = 200
           /\ Range(res.body.states) \subseteq Range(wide.body.states)

\* /filters answered a category and a language with some state, and with
\* fewer states than the category alone has
C4_Witness ==
  /\ req.op = "/filters" /\ res.status = 200
  /\ Truthy(req.query.Ministry_Category) /\ Truthy(req.query.language)
  /\ res.body.states # <<>>
  /\ Len(res.body.states)
       < Len(StatesForCategory(req.op, req.query.Ministry_Category).body.states)

\* a limit string that is an integer: digits, or a minus sign and digits
IsInteger(t) ==
  /\ t # undefined
  /\ LET d == IF t # <<>> /\ Head(t) = "-" THEN Tail(t) ELSE t
     IN  d # <<>> /\ \A i \in DOMAIN d : IsDigit(d[i])

RECURSIVE Decimal(_)
Decimal(d) ==
  IF d = <<>> THEN 0
  ELSE 10 * Decimal(SubSeq(d, 1, Len(d) - 1)) + DigitVal(d[Len(d)])

Requested(t) == IF Head(t) = "-" THEN 0 - Decimal(Tail(t)) ELSE Decimal(t)

\* C5: a requested integer limit of 101 or more gives the limit 100, one of 0
\* or less gives 1, and one from 1 to 100 is the limit.
C5_LimitClamped ==
  (req.op = "paginated" /\ IsInteger(req.query.limit))
    => LET n == Requested(req.query.limit)
       IN  page.limit = Num(IF n >= 101 THEN 100 ELSE IF n <= 0 THEN 1 ELSE n)

\* paginated was given a limit of 101 or more and returned 100
C5_Witness ==
  /\ req.op = "paginated" /\ IsInteger(req.query.limit)
  /\ Requested(req.query.limit) >= 101
  /\ page.limit = Num(100)

\* C6: whatever the limit and offset strings, missing, empty and non-numeric
\* ones included, paginated returns an integer limit from 1 to 100 and an
\* integer offset of 0 or more.
C6_AlwaysInRange ==
  req.op = "paginated"
    => /\ ~page.limit.nan /\ page.limit.val \in 1..100
       /\ ~page.offset.nan /\ page.offset.val >= 0

\* C7: /filters with no category, language or state succeeds, and its
\* languages are the distinct non-blank languages of the table in ascending
\* order.
C7_NoFacetListsAllLanguages ==
  (req.op = "/filters" /\ ~Truthy(req.query.Ministry_Category)
     /\ ~Truthy(req.query.language) /\ ~Truthy(req.query.state))
    => /\ res.status = 200
       /\ res.body.languages
            = OrderAsc({cbn[i].Segment_Language :
                        i \in {j \in DOMAIN cbn : NotBlank(cbn[j].Segment_Language)}})

\* C8: /enz/months without a year, absent or empty, answers 400 with an error
\* message and runs no statement.
C8_MonthsRequireYear ==
  (req.op = "/enz/months" /\ ~Truthy(req.query.year))
    => /\ res.status = 400
       /\ res.body = [error |-> "year is required"]
       /\ nq = 0

\* /enz/months was refused for want of a year although the table holds an
\* episode with a date and a link
C8_Witness ==
  /\ req.op = "/enz/months" /\ req.query.year \in {undefined, <<>>}
  /\ res.status = 400 /\ nq = 0
  /\ \E i \in DOMAIN enz :
       ~BlankLink(enz[i]) /\ strftime("%Y", enz[i].Telecast_date) # NULL

EnglishMonths ==
  << <<"J", "a", "n", "u", "a", "r", "y">>,
     <<"F", "e", "b", "r", "u", "a", "r", "y">>,
     <<"M", "a", "r", "c", "h">>,
     <<"A", "p", "r", "i", "l">>,
     <<"M", "a", "y">>,
     <<"J", "u", "n", "e">>,
     <<"J", "u", "l", "y">>,
     <<"A", "u", "g", "u", "s", "t">>,
     <<"S", "e", "p", "t", "e", "m", "b", "e", "r">>,
     <<"O", "c", "t", "o", "b", "e", "r">>,
     <<"N", "o", "v", "e", "m", "b", "e", "r">>,
     <<"D", "e", "c", "e", "m", "b", "e", "r">> >>

\* the name the month listing pairs with a code: the English month for 01 to
\* 12, the code itself for anything else
ExpectedName(mm) ==
  IF Len(mm) = 2 /\ IsDigit(mm[1]) /\ IsDigit(mm[2])
       /\ 10 * DigitVal(mm[1]) + DigitVal(mm[2]) \in 1..12
  THEN EnglishMonths[10 * DigitVal(mm[1]) + DigitVal(mm[2])]
  ELSE mm

\* C9: /enz/months with names=1, for a year that has an episode with a date
\* and a link, succeeds with one {value, name} pair for each month of the
\* year, newest first.
C9_NamesModeSucceeds ==
  (req.op = "/enz/months" /\ Truthy(req.query.year) /\ req.query.names = << "1" >>
     /\ \E i \in DOMAIN enz :
          ~BlankLink(enz[i]) /\ strftime("%Y", enz[i].Telecast_date) = req.query.year)
    => LET months == FilterBoolean(MonthsRows(enz, req.query.year))
       IN  /\ res.status = 200
           /\ res.body.months
                = [k \in DOMAIN months |->
                     [value |-> months[k], name |-> ExpectedName(months[k])]]

\* C10: /filters for a category other than Choirs in concert succeeds with
\* an empty states list and an empty churches list.
C10_OtherCategoriesHaveNoRegions ==
  (req.op = "/filters" /\ Truthy(req.query.Ministry_Category)
     /\ req.query.Ministry_Category # Choirs)
    => /\ res.status = 200
       /\ res.body.states = <<>>
       /\ res.body.churches = <<>>

====
